---- MODULE Spec2Model ----
(***************************************************************************)
(* Model of arbBot1.py: the odds pipeline run by main()                    *)
(*   fetch_odds_data -> build_dataframe -> remove_betting_exchanges ->     *)
(*   get_highest_odds -> find_arbitrage_opportunities -> calculate_stakes  *)
(*   -> display_arbitrage_opportunities.                                   *)
(*                                                                         *)
(* A DataFrame is a sequence of rows; each row is a record that carries    *)
(* its index label (field idx) and the columns the pipeline reads.  The    *)
(* columns sport_key, sport_title, home_team, away_team, commence_time,    *)
(* bookmaker_title and the two last_update columns are copied by           *)
(* build_dataframe and read only by the report; they are functions of the  *)
(* game id and the bookmaker key and are left out of the rows.             *)
(*                                                                         *)
(* The numeric columns are float64.  They are modelled as IEEE 754         *)
(* binary64 values (53-bit significand, round to nearest, ties to even)    *)
(* over arbitrary-precision naturals, so that 1/price, the group sums and  *)
(* the stakes are rounded exactly as the code rounds them.                 *)
(***************************************************************************)
EXTENDS Integers, Sequences, FiniteSets, TLC

(***************************************************************************)
(* Arbitrary-precision naturals: little-endian sequences of limbs in       *)
(* 0..Base-1 without leading zero limbs; <<>> is zero.                     *)
(***************************************************************************)
LimbBits == 15

Base == 2^LimbBits

Pow2(k) == 2^k

Limb(a, i) == IF i <= Len(a) THEN a[i] ELSE 0

RECURSIVE BNorm(_)
BNorm(a) ==
  IF a = <<>> THEN <<>>
  ELSE IF a[Len(a)] = 0 THEN BNorm(SubSeq(a, 1, Len(a) - 1)) ELSE a

BFromInt(n) ==
  BNorm(<<n % Base, (n \div Base) % Base, n \div (Base * Base)>>)

RECURSIVE BAddRec(_, _, _, _)
BAddRec(a, b, i, c) ==
  IF i > Len(a) /\ i > Len(b)
  THEN IF c = 0 THEN <<>> ELSE <<c>>
  ELSE LET s == Limb(a, i) + Limb(b, i) + c
       IN  <<s % Base>> \o BAddRec(a, b, i + 1, s \div Base)

BAdd(a, b) == BAddRec(a, b, 1, 0)

\* a - b for a >= b
RECURSIVE BSubRec(_, _, _, _)
BSubRec(a, b, i, c) ==
  IF i > Len(a) THEN <<>>
  ELSE LET s == a[i] - Limb(b, i) - c
       IN  IF s < 0 THEN <<s + Base>> \o BSubRec(a, b, i + 1, 1)
                    ELSE <<s>> \o BSubRec(a, b, i + 1, 0)

BSub(a, b) == BNorm(BSubRec(a, b, 1, 0))

\* -1, 0, 1 as a < b, a = b, a > b
RECURSIVE BCmpRec(_, _, _)
BCmpRec(a, b, i) ==
  IF i = 0 THEN 0
  ELSE IF a[i] < b[i] THEN -1
  ELSE IF a[i] > b[i] THEN 1
  ELSE BCmpRec(a, b, i - 1)

BCmp(a, b) ==
  IF Len(a) < Len(b) THEN -1
  ELSE IF Len(a) > Len(b) THEN 1
  ELSE BCmpRec(a, b, Len(a))

\* a * d + c for 0 <= d < Base, 0 <= c < Base
RECURSIVE BMulSmallRec(_, _, _, _)
BMulSmallRec(a, d, i, c) ==
  IF i > Len(a)
  THEN IF c = 0 THEN <<>> ELSE <<c>>
  ELSE LET s == a[i] * d + c
       IN  <<s % Base>> \o BMulSmallRec(a, d, i + 1, s \div Base)

BMulSmall(a, d, c) == BNorm(BMulSmallRec(a, d, 1, c))

Zeros(n) == [i \in 1..n |-> 0]

\* a * Base^n
BShlLimbs(a, n) == IF a = <<>> THEN <<>> ELSE Zeros(n) \o a

RECURSIVE BMulRec(_, _, _)
BMulRec(a, b, i) ==
  IF i > Len(b) THEN <<>>
  ELSE BAdd(BShlLimbs(BMulSmall(a, b[i], 0), i - 1), BMulRec(a, b, i + 1))

BMul(a, b) == BMulRec(a, b, 1)

\* a * 2^k
BShl(a, k) ==
  BShlLimbs(BMulSmall(a, Pow2(k % LimbBits), 0), k \div LimbBits)

\* floor(a / 2^k)
BShr(a, k) ==
  LET n == k \div LimbBits
      r == k % LimbBits
      m == Len(a) - n
  IN  IF m <= 0 THEN <<>>
      ELSE BNorm([i \in 1..m |->
                   (a[i + n] \div Pow2(r))
                   + (Limb(a, i + n + 1) % Pow2(r)) * Pow2(LimbBits - r)])

RECURSIVE SmallBitLen(_)
SmallBitLen(n) == IF n = 0 THEN 0 ELSE 1 + SmallBitLen(n \div 2)

BBitLen(a) ==
  IF a = <<>> THEN 0 ELSE (Len(a) - 1) * LimbBits + SmallBitLen(a[Len(a)])

BIsOdd(a) == a # <<>> /\ a[1] % 2 = 1

(***************************************************************************)
(* float64.  A value is [neg, m, e] and stands for (-1)^neg * m * 2^e; a   *)
(* float64 has m = <<>> (zero, with e = 0 and neg = FALSE) or m of exactly *)
(* MantBits bits.  The values of the pipeline stay far from the overflow   *)
(* and subnormal ranges, so the exponent is unbounded here.                *)
(***************************************************************************)
MantBits == 53

FZero == [neg |-> FALSE, m |-> <<>>, e |-> 0]

\* round m * 2^e to the nearest float64, ties to even
Rnd(neg, m, e) ==
  LET L == BBitLen(m)
  IN  IF L = 0 THEN FZero
      ELSE IF L <= MantBits
      THEN [neg |-> neg, m |-> BShl(m, MantBits - L), e |-> e - (MantBits - L)]
      ELSE LET d    == L - MantBits
               q    == BShr(m, d)
               rem  == BSub(m, BShl(q, d))
               half == BShl(<<1>>, d - 1)
               c    == BCmp(rem, half)
               up   == c = 1 \/ (c = 0 /\ BIsOdd(q))
               q1   == IF up THEN BAdd(q, <<1>>) ELSE q
           IN  IF BBitLen(q1) > MantBits
               THEN [neg |-> neg, m |-> BShr(q1, 1), e |-> e + d + 1]
               ELSE [neg |-> neg, m |-> q1, e |-> e + d]

FromInt(n) == Rnd(FALSE, BFromInt(n), 0)

FOne == FromInt(1)

\* exact sum of two values, as an unrounded [neg, m, e]
XAdd(x, y) ==
  IF x.m = <<>> THEN y
  ELSE IF y.m = <<>> THEN x
  ELSE LET e  == IF x.e < y.e THEN x.e ELSE y.e
           mx == BShl(x.m, x.e - e)
           my == BShl(y.m, y.e - e)
           c  == BCmp(mx, my)
       IN  IF x.neg = y.neg THEN [neg |-> x.neg, m |-> BAdd(mx, my), e |-> e]
           ELSE IF c = 0 THEN FZero
           ELSE IF c = 1 THEN [neg |-> x.neg, m |-> BSub(mx, my), e |-> e]
           ELSE [neg |-> y.neg, m |-> BSub(my, mx), e |-> e]

XNeg(x) == IF x.m = <<>> THEN x ELSE [x EXCEPT !.neg = ~x.neg]

XMul(x, y) ==
  IF x.m = <<>> \/ y.m = <<>> THEN FZero
  ELSE [neg |-> x.neg # y.neg, m |-> BMul(x.m, y.m), e |-> x.e + y.e]

\* sign of x - y: -1, 0, 1
XCmp(x, y) ==
  LET d == XAdd(x, XNeg(y))
  IN  IF d.m = <<>> THEN 0 ELSE IF d.neg THEN -1 ELSE 1

XAbs(x) == [x EXCEPT !.neg = FALSE]

FAdd(x, y) == LET s == XAdd(x, y) IN Rnd(s.neg, s.m, s.e)

FSub(x, y) == FAdd(x, XNeg(y))

FMul(x, y) == LET p == XMul(x, y) IN Rnd(p.neg, p.m, p.e)

FLess(x, y) == XCmp(x, y) = -1

DivSteps == 4

\* the largest d <= est with d * b <= r
RECURSIVE QuotDigit(_, _, _)
QuotDigit(r, b, est) ==
  IF BCmp(BMulSmall(b, est, 0), r) <= 0 THEN est ELSE QuotDigit(r, b, est - 1)

\* long division in base Base (Knuth's algorithm D): k more limbs of the
\* quotient, given the limbs q so far and the remainder r < b, for b whose top
\* limb is at least Base / 2; a last bit is appended that is 1 iff the
\* division is inexact
RECURSIVE DivLimbs(_, _, _, _)
DivLimbs(r, b, k, q) ==
  IF k = 0 THEN BMulSmall(q, 2, IF r = <<>> THEN 0 ELSE 1)
  ELSE LET r1  == BShlLimbs(r, 1)
           top == Len(b)
           e0  == (Limb(r1, top + 1) * Base + Limb(r1, top)) \div b[top]
           est == IF e0 > Base - 1 THEN Base - 1 ELSE e0
           d   == QuotDigit(r1, b, est)
       IN  DivLimbs(BSub(r1, BMulSmall(b, d, 0)), b, k - 1,
                    BAdd(BShlLimbs(q, 1), BFromInt(d)))

\* x / y for float64 x and y # 0: the quotient of the significands to
\* LimbBits * DivSteps fractional bits and a sticky bit, rounded once
FDiv(x, y) ==
  IF x.m = <<>> THEN FZero
  ELSE LET sh == (LimbBits - (MantBits % LimbBits)) % LimbBits
           a  == BShl(x.m, sh)
           b  == BShl(y.m, sh)
           d0 == IF BCmp(a, b) >= 0 THEN 1 ELSE 0
           r0 == IF d0 = 1 THEN BSub(a, b) ELSE a
           q  == DivLimbs(r0, b, DivSteps, IF d0 = 1 THEN <<1>> ELSE <<>>)
       IN  Rnd(x.neg # y.neg, q, x.e - y.e - (LimbBits * DivSteps + 1))

\* the integer nearest to x * 10^digits for x >= 0, ties to even: the digits
\* that a format with that many decimals prints
RECURSIVE Pow10(_)
Pow10(n) == IF n = 0 THEN <<1>> ELSE BMulSmall(Pow10(n - 1), 10, 0)

RECURSIVE BToInt(_)
BToInt(a) == IF a = <<>> THEN 0 ELSE a[1] + Base * BToInt(Tail(a))

FormatFixed(x, digits) ==
  LET n == BMul(x.m, Pow10(digits))
  IN  IF x.e >= 0 THEN BToInt(BShl(n, x.e))
      ELSE LET d    == 0 - x.e
               q    == BShr(n, d)
               rem  == BSub(n, BShl(q, d))
               c    == BCmp(rem, BShl(<<1>>, d - 1))
               up   == c = 1 \/ (c = 0 /\ BIsOdd(q))
           IN  BToInt(IF up THEN BAdd(q, <<1>>) ELSE q)

(***************************************************************************)
(* The JSON reply of the odds provider.  A list-valued key of a JSON       *)
(* object is [present, items]: present = FALSE is an object without the    *)
(* key.  A price is a decimal literal with two decimals, written as the    *)
(* number of hundredths.                                                   *)
(***************************************************************************)
Have(items) == [present |-> TRUE, items |-> items]

Absent == [present |-> FALSE, items |-> <<>>]

\* dict.get(key, default)
Get(field, default) == IF field.present THEN field.items ELSE default

Range(f) == {f[i] : i \in DOMAIN f}

RECURSIVE ConcatAll(_)
ConcatAll(ss) == IF ss = <<>> THEN <<>> ELSE Head(ss) \o ConcatAll(Tail(ss))

\* game ids and outcome names in the order Python sorts them
GameIds == <<"g1", "g2", "g3", "g4", "g5", "g6", "g7", "g8", "g9">>

OutcomeNames == <<"Away", "Draw", "Home">>

GameRank(id) == CHOOSE i \in DOMAIN GameIds : GameIds[i] = id

NameRank(name) == CHOOSE i \in DOMAIN OutcomeNames : OutcomeNames[i] = name

\* the float64 nearest to a price literal of two decimals: both operands
\* are exact, and the division rounds once
ParsePrice(cents) == FDiv(FromInt(cents), FromInt(100))

ParseOutcomes(f) ==
  [present |-> f.present,
   items   |-> [i \in 1..Len(f.items) |->
                 [name |-> f.items[i].name, price |-> ParsePrice(f.items[i].price)]]]

ParseMarkets(f) ==
  [present |-> f.present,
   items   |-> [i \in 1..Len(f.items) |->
                 [key |-> f.items[i].key, outcomes |-> ParseOutcomes(f.items[i].outcomes)]]]

ParseBookmakers(f) ==
  [present |-> f.present,
   items   |-> [i \in 1..Len(f.items) |->
                 [key |-> f.items[i].key, markets |-> ParseMarkets(f.items[i].markets)]]]

ParseJson(body) ==
  [i \in 1..Len(body) |->
    [id |-> body[i].id, bookmakers |-> ParseBookmakers(body[i].bookmakers)]]

(***************************************************************************)
(* DataFrames: [columns, rows]; each row carries its index label idx.      *)
(***************************************************************************)
BaseColumns ==
  {"game_id", "sport_key", "sport_title", "home_team", "away_team",
   "commence_time", "bookmaker_key", "bookmaker_title", "bookmaker_last_update",
   "market_key", "market_last_update", "outcome_name", "outcome_price"}

\* pd.DataFrame(rows_list): no rows give a frame without columns
DataFrame(rows_list) ==
  [columns |-> IF rows_list = <<>> THEN {} ELSE BaseColumns,
   rows    |-> [i \in 1..Len(rows_list) |-> [idx |-> i - 1] @@ rows_list[i]]]

\* a variant that keeps the first outcome of a market only
FirstOutcomeRows(game, bookmaker, market_) ==
  LET outcomes == Get(market_.outcomes, <<>>)
  IN  [i \in 1..(IF Len(outcomes) > 1 THEN 1 ELSE Len(outcomes)) |->
        [game_id       |-> game.id,
         bookmaker_key |-> bookmaker.key,
         market_key    |-> market_.key,
         outcome_name  |-> outcomes[i].name,
         outcome_price |-> outcomes[i].price]]

\* the rows one market contributes
OutcomeRows(game, bookmaker, market_) ==
  LET outcomes == Get(market_.outcomes, <<>>)
  IN  [i \in 1..Len(outcomes) |->
        [game_id       |-> game.id,
         bookmaker_key |-> bookmaker.key,
         market_key    |-> market_.key,
         outcome_name  |-> outcomes[i].name,
         outcome_price |-> outcomes[i].price]]

MarketRows(game, bookmaker) ==
  LET markets == Get(bookmaker.markets, <<>>)
  IN  ConcatAll([j \in 1..Len(markets) |-> OutcomeRows(game, bookmaker, markets[j])])

BookmakerRows(game) ==
  LET bookmakers == Get(game.bookmakers, <<>>)
  IN  ConcatAll([j \in 1..Len(bookmakers) |-> MarketRows(game, bookmakers[j])])

build_dataframe(data) ==
  DataFrame(ConcatAll([g \in 1..Len(data) |-> BookmakerRows(data[g])]))

\* a variant of the list without its last entry
exchanges_betfair_only == {"betfair_ex_uk", "betfair_ex_eu"}

exchanges == {"betfair_ex_uk", "betfair_ex_eu", "matchbook"}

IsFixedOdds(r) == r.bookmaker_key \notin exchanges

\* df[~df['bookmaker_key'].isin(exchanges)]; the rows keep their labels
remove_betting_exchanges(frame) ==
  [columns |-> frame.columns, rows |-> SelectSeq(frame.rows, IsFixedOdds)]

GroupKey(r) == <<r.game_id, r.outcome_name>>

KeyLess(a, b) ==
  \/ GameRank(a[1]) < GameRank(b[1])
  \/ a[1] = b[1] /\ NameRank(a[2]) < NameRank(b[2])

\* the group keys in sorted order, as groupby (sort=True) yields them
RECURSIVE SortKeys(_)
SortKeys(S) ==
  IF S = {} THEN <<>>
  ELSE LET lo == CHOOSE k \in S : \A o \in S \ {k} : KeyLess(k, o)
       IN  <<lo>> \o SortKeys(S \ {lo})

\* idxmax: the label of the first row of the group that holds its maximum
RECURSIVE IdxMaxRec(_, _, _)
IdxMaxRec(grp, i, best) ==
  IF i > Len(grp) THEN best.idx
  ELSE IdxMaxRec(grp, i + 1,
                 IF FLess(best.outcome_price, grp[i].outcome_price)
                 THEN grp[i] ELSE best)

\* a variant that takes the last row of the group that holds its maximum
IdxMaxLast(rows, key) ==
  LET grp == SelectSeq(rows, LAMBDA r : GroupKey(r) = key)
      top == CHOOSE i \in DOMAIN grp :
               /\ \A j \in DOMAIN grp : ~FLess(grp[i].outcome_price, grp[j].outcome_price)
               /\ \A j \in DOMAIN grp :
                    j > i => FLess(grp[j].outcome_price, grp[i].outcome_price)
  IN  grp[top].idx

IdxMax(rows, key) ==
  LET grp == SelectSeq(rows, LAMBDA r : GroupKey(r) = key)
  IN  IdxMaxRec(grp, 2, grp[1])

\* df.loc[label]
Loc(rows, label) == CHOOSE r \in Range(rows) : r.idx = label

get_highest_odds(frame) ==
  LET keys == SortKeys({GroupKey(r) : r \in Range(frame.rows)})
      idx  == [k \in 1..Len(keys) |-> IdxMax(frame.rows, keys[k])]
  IN  [columns |-> frame.columns,
       rows    |-> [k \in 1..Len(idx) |->
                     [Loc(frame.rows, idx[k]) EXCEPT !.idx = k - 1]]]

\* 1 / price
Reciprocal(x) == FDiv(FOne, x)

\* groupby sum of float64: Kahan summation in the row order of the group
\* (pandas 1.2 and later); earlier versions add the values one by one
RECURSIVE KahanSum(_, _, _, _)
KahanSum(vals, i, sumx, comp) ==
  IF i > Len(vals) THEN sumx
  ELSE LET y == FSub(vals[i], comp)
           t == FAdd(sumx, y)
       IN  KahanSum(vals, i + 1, t, FSub(FSub(t, sumx), y))

RECURSIVE PlainSum(_, _, _)
PlainSum(vals, i, sumx) ==
  IF i > Len(vals) THEN sumx ELSE PlainSum(vals, i + 1, FAdd(sumx, vals[i]))

SumModes == {"kahan", "plain"}

GroupSum(rows, game_id, mode) ==
  LET grp  == SelectSeq(rows, LAMBDA r : r.game_id = game_id)
      vals == [i \in 1..Len(grp) |-> grp[i].implied_probability]
  IN  IF mode = "kahan" THEN KahanSum(vals, 1, FZero, FZero)
      ELSE PlainSum(vals, 1, FZero)

\* the frame after lines 108 and 109 (the argument is changed in place)
WithImplied(frame, mode) ==
  LET r1   == [i \in 1..Len(frame.rows) |->
                frame.rows[i] @@
                [implied_probability |-> Reciprocal(frame.rows[i].outcome_price)]]
      sums == [g \in {r.game_id : r \in Range(r1)} |-> GroupSum(r1, g, mode)]
  IN  [columns |-> frame.columns \cup {"implied_probability", "sum_implied_prob"},
       rows    |-> [i \in 1..Len(r1) |->
                     r1[i] @@ [sum_implied_prob |-> sums[r1[i].game_id]]]]

\* a variant with <= 1 for < 1
IsAtMostOne(r) == ~FLess(FOne, r.sum_implied_prob)

IsArbitrage(r) == FLess(r.sum_implied_prob, FOne)

\* a variant that asks a game for two outcomes at least
ArbitrageRowsOfPairs(full) ==
  [columns |-> full.columns,
   rows    |-> SelectSeq(full.rows,
                 LAMBDA r : /\ IsArbitrage(r)
                            /\ \E o \in Range(full.rows) :
                                 o.game_id = r.game_id /\ o.outcome_name # r.outcome_name)]

\* df[df['sum_implied_prob'] < 1].copy()
ArbitrageRows(full) ==
  [columns |-> full.columns, rows |-> SelectSeq(full.rows, IsArbitrage)]

find_arbitrage_opportunities(frame, mode) == ArbitrageRows(WithImplied(frame, mode))

\* a variant without the division by the sum
PerUnitUnscaled(stake_total, sum_implied_prob) == FromInt(stake_total)

\* total_stake / sum_implied_prob
PerUnit(stake_total, sum_implied_prob) == FDiv(FromInt(stake_total), sum_implied_prob)

Roi(sum_implied_prob) == FSub(FOne, sum_implied_prob)

\* a variant that stakes total_stake / sum_implied_prob on every row
calculate_stakes_level(frame, stake_total) ==
  [columns |-> frame.columns \cup {"stake", "roi"},
   rows    |-> [i \in 1..Len(frame.rows) |->
                 frame.rows[i] @@
                 [stake |-> PerUnit(stake_total, frame.rows[i].sum_implied_prob),
                  roi   |-> Roi(frame.rows[i].sum_implied_prob)]]]

\* lines 122 and 123, elementwise; rows with the same sum get the same
\* quotient, which is worked out once for each sum
calculate_stakes(frame, stake_total) ==
  LET sums == {r.sum_implied_prob : r \in Range(frame.rows)}
      unit == [x \in sums |-> PerUnit(stake_total, x)]
      roi  == [x \in sums |-> Roi(x)]
  IN  [columns |-> frame.columns \cup {"stake", "roi"},
       rows    |-> [i \in 1..Len(frame.rows) |->
                     frame.rows[i] @@
                     [stake |-> FMul(unit[frame.rows[i].sum_implied_prob],
                                     frame.rows[i].implied_probability),
                      roi   |-> roi[frame.rows[i].sum_implied_prob]]]]

\* one section per game id in sorted order; prices and stakes with two
\* decimals (in hundredths), the roi as a percentage with two decimals
RECURSIVE SortGames(_)
SortGames(S) ==
  IF S = {} THEN <<>>
  ELSE LET lo == CHOOSE g \in S : \A o \in S \ {g} : GameRank(g) < GameRank(o)
       IN  <<lo>> \o SortGames(S \ {lo})

ReportLine(r) ==
  [outcome   |-> r.outcome_name,
   bookmaker |-> r.bookmaker_key,
   odds      |-> FormatFixed(r.outcome_price, 2),
   stake     |-> FormatFixed(r.stake, 2)]

display_arbitrage_opportunities(frame) ==
  LET ids == SortGames({r.game_id : r \in Range(frame.rows)})
  IN  [k \in 1..Len(ids) |->
        LET group == SelectSeq(frame.rows, LAMBDA r : r.game_id = ids[k])
        IN  [game_id |-> ids[k],
             lines   |-> [i \in 1..Len(group) |-> ReportLine(group[i])],
             roi     |-> FormatFixed(FMul(group[1].roi, FromInt(100)), 2)]]

(***************************************************************************)
(* The replies of the odds provider that the runs start from.              *)
(***************************************************************************)
MaxOutcomes == 3

MaxBookmakers == 2

MaxGames == 2

MaxNodes == 5

SeqsUpTo(S, n) == UNION {[1..k -> S] : k \in 0..n}

Quote(name, cents) == [name |-> name, price |-> cents]

Market(quotes) == [key |-> "h2h", outcomes |-> Have(quotes)]

Bookmaker(key, quotes) == [key |-> key, markets |-> Have(<<Market(quotes)>>)]

Game(id, bookmakers) == [id |-> id, bookmakers |-> Have(bookmakers)]

\* one game, one bookmaker, a board of up to MaxOutcomes quotes
BoardPrices == {200, 420}

BoardSnapshots ==
  {<<Game("g1", <<Bookmaker("bet365", board)>>)>> :
     board \in SeqsUpTo({Quote(n, p) : n \in Range(OutcomeNames), p \in BoardPrices},
                        MaxOutcomes)}

\* one game, up to MaxBookmakers bookmakers that quote one outcome each
RivalKeys == {"bet365", "williamhill", "matchbook"}

RivalPrices == {200, 205}

RivalSnapshots ==
  {<<Game("g1", bookmakers)>> :
     bookmakers \in
       SeqsUpTo({Bookmaker(k, <<Quote(n, p)>>) :
                   k \in RivalKeys, n \in {"Home", "Away"}, p \in RivalPrices},
                MaxBookmakers)}

\* up to MaxGames games of one bookmaker, listed by rising or falling id;
\* the reciprocals of a board's prices add up to more than 1, to 1 or to less
FixturePrices == {190, 200, 210}

FixtureBoards == {<<Quote("Home", p), Quote("Away", 200)>> : p \in FixturePrices}

FixtureSnapshots ==
  UNION {{[i \in 1..n |->
             Game(GameIds[IF rising THEN i ELSE n + 1 - i],
                  <<Bookmaker("bet365", boards[i])>>)] :
            boards \in [1..n -> FixtureBoards], rising \in BOOLEAN} :
         n \in 0..MaxGames}

\* every reply of up to MaxNodes objects (games, bookmakers, markets and
\* outcomes together), with any list-valued key absent, empty or filled;
\* a reply is grown object by object in document order
ShapeKeys == {"bet365"}

ShapeQuotes == {Quote("Home", 210)}

LastBookmakers(s) == s[Len(s)].bookmakers

LastMarkets(s) == LastBookmakers(s).items[Len(LastBookmakers(s).items)].markets

LastOutcomes(s) == LastMarkets(s).items[Len(LastMarkets(s).items)].outcomes

Grow(s) ==
  LET bn == Len(LastBookmakers(s).items)
      mn == Len(LastMarkets(s).items)
  IN  {Append(s, [id |-> GameIds[Len(s) + 1], bookmakers |-> f]) :
         f \in {Absent, Have(<<>>)}}
      \cup
      (IF s # <<>> /\ LastBookmakers(s).present
       THEN {[s EXCEPT ![Len(s)].bookmakers.items =
                Append(@, [key |-> k, markets |-> f])] :
               k \in ShapeKeys, f \in {Absent, Have(<<>>)}}
       ELSE {})
      \cup
      (IF s # <<>> /\ bn > 0 /\ LastMarkets(s).present
       THEN {[s EXCEPT ![Len(s)].bookmakers.items[bn].markets.items =
                Append(@, [key |-> "h2h", outcomes |-> f])] :
               f \in {Absent, Have(<<>>)}}
       ELSE {})
      \cup
      (IF s # <<>> /\ bn > 0 /\ mn > 0 /\ LastOutcomes(s).present
       THEN {[s EXCEPT ![Len(s)].bookmakers.items[bn].markets.items[mn]
                                .outcomes.items = Append(@, q)] :
               q \in ShapeQuotes}
       ELSE {})

RECURSIVE ShapeSnapshots(_)
ShapeSnapshots(n) ==
  IF n = 0 THEN {<<>>}
  ELSE LET prev == ShapeSnapshots(n - 1)
       IN  prev \cup UNION {Grow(s) : s \in prev}

\* the two scenarios of the specification, and one with each exchange
ScenarioSnapshots ==
  {<<Game("g1", <<Bookmaker("bet365", <<Quote("Home", 210), Quote("Away", 205)>>),
                  Bookmaker("williamhill", <<Quote("Home", 195), Quote("Away", 220)>>)>>)>>,
   <<Game("g1", <<Bookmaker("bet365", <<Quote("Home", 180), Quote("Away", 190)>>)>>)>>,
   <<Game("g1", <<Bookmaker("betfair_ex_uk", <<Quote("Home", 350), Quote("Draw", 350)>>),
                  Bookmaker("bet365", <<Quote("Home", 210), Quote("Away", 220)>>),
                  Bookmaker("betfair_ex_eu", <<Quote("Away", 350), Quote("Draw", 350)>>)>>)>>}

Snapshots ==
  BoardSnapshots \cup RivalSnapshots \cup FixtureSnapshots
  \cup ShapeSnapshots(MaxNodes) \cup ScenarioSnapshots

FetchOutcomes == {"ok", "request_failed", "bad_json"}

TotalStakes == {1, 70, 1000}

(***************************************************************************)
(* main()                                                                  *)
(***************************************************************************)
VARIABLES
  pc,               \* the statement of main that runs next
  response,         \* what the provider answers: [status, body]
  odds_data,        \* main's locals
  df,
  df_highest_odds,
  df_arbitrage,
  total_stake,
  stdout,           \* the sections printed
  log,              \* the logging records
  raised,           \* the exception that left main, or "none"
  calls             \* the functions main has called, in order

vars ==
  <<pc, response, odds_data, df, df_highest_odds, df_arbitrage, total_stake,
    stdout, log, raised, calls>>

NoFrame == [columns |-> {}, rows |-> <<>>]

Init ==
  /\ pc = "fetch"
  /\ response \in
       {[status |-> "ok", body |-> b] : b \in Snapshots}
       \cup {[status |-> f, body |-> <<>>] : f \in FetchOutcomes \ {"ok"}}
  /\ odds_data = <<>>
  /\ df = NoFrame
  /\ df_highest_odds = NoFrame
  /\ df_arbitrage = NoFrame
  /\ total_stake = 0
  /\ stdout = <<>>
  /\ log = <<>>
  /\ raised = "none"
  /\ calls = <<>>

\* the except clause that logs a failure of the request: the decode error
\* of response.json() is a RequestException in requests 2.27 and later and
\* a plain JSONDecodeError before
FetchMessages(status) ==
  IF status = "bad_json"
  THEN {"HTTP Request failed", "Failed to parse JSON response"}
  ELSE {"HTTP Request failed"}

\* lines 157-161 with fetch_odds_data, lines 27-37
MainFetch ==
  /\ pc = "fetch"
  /\ calls' = Append(calls, "fetch_odds_data")
  /\ IF response.status = "ok"
     THEN /\ odds_data' = ParseJson(response.body)
          /\ log' = log
          /\ pc' = "build"
     ELSE /\ odds_data' = odds_data
          /\ \E msg \in FetchMessages(response.status) :
               log' = log \o
                 <<[level |-> "ERROR", msg |-> msg],
                   [level |-> "ERROR", msg |-> "Failed to fetch odds data."]>>
          /\ pc' = "done"
  /\ UNCHANGED <<response, df, df_highest_odds, df_arbitrage, total_stake,
                 stdout, raised>>

\* line 163
MainBuild ==
  /\ pc = "build"
  /\ calls' = Append(calls, "build_dataframe")
  /\ df' = build_dataframe(odds_data)
  /\ pc' = "filter"
  /\ UNCHANGED <<response, odds_data, df_highest_odds, df_arbitrage, total_stake,
                 stdout, log, raised>>

\* line 164; df['bookmaker_key'] raises KeyError on a frame without columns
MainFilter ==
  /\ pc = "filter"
  /\ calls' = Append(calls, "remove_betting_exchanges")
  /\ IF "bookmaker_key" \in df.columns
     THEN /\ df' = remove_betting_exchanges(df)
          /\ raised' = raised
          /\ pc' = "highest"
     ELSE /\ df' = df
          /\ raised' = "KeyError"
          /\ pc' = "crashed"
  /\ UNCHANGED <<response, odds_data, df_highest_odds, df_arbitrage, total_stake,
                 stdout, log>>

\* line 165
MainHighest ==
  /\ pc = "highest"
  /\ calls' = Append(calls, "get_highest_odds")
  /\ df_highest_odds' = get_highest_odds(df)
  /\ pc' = "detect"
  /\ UNCHANGED <<response, odds_data, df, df_arbitrage, total_stake,
                 stdout, log, raised>>

\* line 166; the two new columns are added to df_highest_odds itself
MainDetect ==
  /\ pc = "detect"
  /\ calls' = Append(calls, "find_arbitrage_opportunities")
  /\ \E mode \in SumModes :
       LET full == WithImplied(df_highest_odds, mode)
       IN  /\ df_highest_odds' = full
           /\ df_arbitrage' = ArbitrageRows(full)
  /\ pc' = "check"
  /\ UNCHANGED <<response, odds_data, df, total_stake, stdout, log, raised>>

\* a variant of lines 168-170 without the return
MainCheckFallsThrough ==
  /\ pc = "check"
  /\ IF df_arbitrage.rows = <<>>
     THEN log' = Append(log, [level |-> "INFO",
                              msg   |-> "No arbitrage opportunities found."])
     ELSE log' = log
  /\ pc' = "stakes"
  /\ UNCHANGED <<response, odds_data, df, df_highest_odds, df_arbitrage,
                 total_stake, stdout, raised, calls>>

\* lines 168-170
MainCheck ==
  /\ pc = "check"
  /\ IF df_arbitrage.rows = <<>>
     THEN /\ log' = Append(log, [level |-> "INFO",
                                 msg   |-> "No arbitrage opportunities found."])
          /\ pc' = "done"
     ELSE /\ log' = log
          /\ pc' = "stakes"
  /\ UNCHANGED <<response, odds_data, df, df_highest_odds, df_arbitrage,
                 total_stake, stdout, raised, calls>>

\* lines 172-173; the frame is changed in place and returned
MainStakes ==
  /\ pc = "stakes"
  /\ calls' = Append(calls, "calculate_stakes")
  /\ \E t \in TotalStakes :
       /\ total_stake' = t
       /\ df_arbitrage' = calculate_stakes(df_arbitrage, t)
  /\ pc' = "display"
  /\ UNCHANGED <<response, odds_data, df, df_highest_odds, stdout, log, raised>>

\* line 176
MainDisplay ==
  /\ pc = "display"
  /\ calls' = Append(calls, "display_arbitrage_opportunities")
  /\ stdout' = display_arbitrage_opportunities(df_arbitrage)
  /\ pc' = "done"
  /\ UNCHANGED <<response, odds_data, df, df_highest_odds, df_arbitrage,
                 total_stake, log, raised>>

Next ==
  \/ MainFetch
  \/ MainBuild
  \/ MainFilter
  \/ MainHighest
  \/ MainDetect
  \/ MainCheck
  \/ MainStakes
  \/ MainDisplay

Spec == Init /\ [][Next]_vars

(***************************************************************************)
(* Properties.                                                             *)
(***************************************************************************)
Excluded == {"betfair_ex_uk", "betfair_ex_eu", "matchbook"}

RowsOf(frame, game_id) == SelectSeq(frame.rows, LAMBDA r : r.game_id = game_id)

GamesOf(frame) == {r.game_id : r \in Range(frame.rows)}

Staked == pc \in {"display", "done"} /\ "stake" \in df_arbitrage.columns

\* |x - y| <= |y| / scale, in exact arithmetic
Within(x, y, scale) ==
  XCmp(XMul(XAbs(XAdd(x, XNeg(y))), FromInt(scale)), XAbs(y)) <= 0

RECURSIVE XSum(_)
XSum(vals) == IF vals = <<>> THEN FZero ELSE XAdd(Head(vals), XSum(Tail(vals)))

RECURSIVE XProd(_)
XProd(vals) == IF vals = <<>> THEN FOne ELSE XMul(Head(vals), XProd(Tail(vals)))

Without(vals, i) == SubSeq(vals, 1, i - 1) \o SubSeq(vals, i + 1, Len(vals))

\* |x - sum of 1/p over the prices| <= (that sum) / scale, in exact arithmetic:
\* both sides are multiplied by the product of the prices
NearReciprocalSum(x, prices, scale) ==
  Within(XMul(x, XProd(prices)),
         XSum([i \in 1..Len(prices) |-> XProd(Without(prices, i))]),
         scale)

Tolerance == 10^6

Payout(r) == FMul(r.stake, r.outcome_price)

\* C1: after calculate_stakes, stake * outcome_price of every row is
\* total_stake * (1 + roi), here even with a relative tolerance of 1e-6.
C1_PayoutIsStakeTimesOnePlusRoi ==
  Staked =>
    \A r \in Range(df_arbitrage.rows) :
      Within(XMul(r.stake, r.outcome_price),
             XMul(FromInt(total_stake), XAdd(FOne, r.roi)),
             Tolerance)

\* C2 as stated: stake * outcome_price is the same value for all rows of a
\* game, as a float64 product or as the exact product.
C2_PayoutsIdentical ==
  Staked =>
    \A r1 \in Range(df_arbitrage.rows), r2 \in Range(df_arbitrage.rows) :
      r1.game_id = r2.game_id =>
        \/ Payout(r1) = Payout(r2)
        \/ XCmp(XMul(r1.stake, r1.outcome_price),
                XMul(r2.stake, r2.outcome_price)) = 0

\* C2 as amended: for every game in the output of calculate_stakes, the
\* products stake * outcome_price of any two rows of the game differ by at
\* most 1e-6 of their value.
C2_PayoutsEqualWithinTolerance ==
  Staked =>
    \A r1 \in Range(df_arbitrage.rows), r2 \in Range(df_arbitrage.rows) :
      r1.game_id = r2.game_id => Within(Payout(r1), Payout(r2), Tolerance)

\* in a staked game two outcomes have different prices, the stakes differ and
\* the rounded products differ
C2_Witness ==
  /\ Staked
  /\ \E r1 \in Range(df_arbitrage.rows), r2 \in Range(df_arbitrage.rows) :
       /\ r1.game_id = r2.game_id
       /\ r1.outcome_price # r2.outcome_price
       /\ r1.stake # r2.stake
       /\ Payout(r1) # Payout(r2)

StakesOf(game_id) ==
  LET grp == RowsOf(df_arbitrage, game_id) IN [i \in 1..Len(grp) |-> grp[i].stake]

\* C3 as stated: the stakes of a game add up to exactly total_stake, as the
\* exact sum or as the float64 sum in row order.
C3_StakesSumExactly ==
  Staked =>
    \A g \in GamesOf(df_arbitrage) :
      \/ XCmp(XSum(StakesOf(g)), FromInt(total_stake)) = 0
      \/ PlainSum(StakesOf(g), 1, FZero) = FromInt(total_stake)

\* C3 as amended: for every game in the output of calculate_stakes, the
\* stakes of the game's rows add up to total_stake within a relative
\* tolerance of 1e-6.
C3_StakesSumWithinTolerance ==
  Staked =>
    \A g \in GamesOf(df_arbitrage) :
      Within(XSum(StakesOf(g)), FromInt(total_stake), Tolerance)

\* a staked game of three outcomes whose stakes do not add up to total_stake
C3_Witness ==
  /\ Staked
  /\ \E g \in GamesOf(df_arbitrage) :
       /\ Len(StakesOf(g)) = 3
       /\ XCmp(XSum(StakesOf(g)), FromInt(total_stake)) # 0

ImpliedOf(grp) == [i \in 1..Len(grp) |-> FDiv(FOne, grp[i].outcome_price)]

PricesOf(grp) == [i \in 1..Len(grp) |-> grp[i].outcome_price]

SumBy(vals, mode) ==
  IF mode = "kahan" THEN KahanSum(vals, 1, FZero, FZero) ELSE PlainSum(vals, 1, FZero)

\* C4: find_arbitrage_opportunities keeps all rows of a game whose float64
\* sum of 1/price over the game's input rows is below 1 and none of a game
\* whose sum is 1 or more; every kept row carries that sum, which is the sum
\* of the reciprocals of the prices to within 1e-9.
C4_GamesKeptOrDroppedWhole ==
  pc = "check" =>
    \E mode \in SumModes :
      \A g \in GamesOf(df_highest_odds) :
        LET grp  == RowsOf(df_highest_odds, g)
            s    == SumBy(ImpliedOf(grp), mode)
            kept == RowsOf(df_arbitrage, g)
        IN  /\ FLess(s, FOne) => kept = grp
            /\ ~FLess(s, FOne) => kept = <<>>
            /\ \A r \in Range(kept) : r.sum_implied_prob = s
            /\ NearReciprocalSum(s, PricesOf(grp), 10^9)

\* one game of two outcomes is kept and another, whose sum is exactly 1, is
\* dropped
C4_Witness ==
  /\ pc = "check"
  /\ \E g1 \in GamesOf(df_highest_odds), g2 \in GamesOf(df_highest_odds) :
       /\ Len(RowsOf(df_highest_odds, g1)) = 2
       /\ Len(RowsOf(df_arbitrage, g1)) = 2
       /\ Len(RowsOf(df_highest_odds, g2)) = 2
       /\ RowsOf(df_arbitrage, g2) = <<>>
       /\ \A r \in Range(RowsOf(df_highest_odds, g2)) : r.sum_implied_prob = FOne

SameQuote(a, b) == [a EXCEPT !.idx = 0] = [b EXCEPT !.idx = 0]

\* C5: get_highest_odds yields one row for each (game_id, outcome_name) pair
\* of its input and no other row; the row is the first input row of the pair,
\* in input order, among those that hold the pair's maximum price.
C5_OneBestRowPerPair ==
  pc = "detect" =>
    LET inp  == df.rows
        out  == df_highest_odds.rows
        keys == {GroupKey(r) : r \in Range(inp)}
    IN  /\ Len(out) = Cardinality(keys)
        /\ \A k \in keys :
             LET pos   == {i \in DOMAIN inp : GroupKey(inp[i]) = k}
                 best  == {i \in pos : \A j \in pos :
                             XCmp(inp[j].outcome_price, inp[i].outcome_price) <= 0}
                 first == CHOOSE i \in best : \A j \in best : i <= j
                 hits  == {o \in DOMAIN out : GroupKey(out[o]) = k}
             IN  /\ Cardinality(hits) = 1
                 /\ \A o \in hits : SameQuote(out[o], inp[first])

\* two bookmakers quote the same maximum price for an outcome
C5_Witness ==
  /\ pc = "detect"
  /\ \E i \in DOMAIN df.rows, j \in DOMAIN df.rows :
       /\ i < j
       /\ GroupKey(df.rows[i]) = GroupKey(df.rows[j])
       /\ df.rows[i].outcome_price = df.rows[j].outcome_price
       /\ df.rows[i].bookmaker_key # df.rows[j].bookmaker_key
       /\ \E r \in Range(df_highest_odds.rows) :
            /\ GroupKey(r) = GroupKey(df.rows[i])
            /\ r.outcome_price = df.rows[i].outcome_price

\* C6: a run whose fetch returns the empty list raises no error and ends
\* with the message that there are no opportunities.
C6_EmptyReplyRaisesNothing ==
  (response.status = "ok" /\ response.body = <<>> /\ pc \notin {"fetch", "build", "filter"})
    => /\ raised = "none"
       /\ pc \in {"highest", "detect", "check", "done"}

\* C7: remove_betting_exchanges keeps each row of a bookmaker outside the
\* excluded set as it is, keeps no row of an excluded bookmaker and adds no
\* row; no row of get_highest_odds is a row of an excluded bookmaker.
C7_ExchangesRemoved ==
  [][/\ (pc = "filter" /\ pc' = "highest") =>
          /\ \A r \in Range(df.rows) :
               r.bookmaker_key \notin Excluded => r \in Range(df'.rows)
          /\ \A r \in Range(df'.rows) :
               r \in Range(df.rows) /\ r.bookmaker_key \notin Excluded
          /\ Len(df'.rows) = Cardinality(Range(df'.rows))
     /\ (pc = "highest" /\ pc' = "detect") =>
          \A r \in Range(df_highest_odds'.rows) : r.bookmaker_key \notin Excluded
    ]_vars

\* an exchange quotes the highest price of an outcome, above the best price
\* that get_highest_odds reports for it
C7_Witness ==
  /\ pc = "detect"
  /\ \E x \in Range(build_dataframe(odds_data).rows), r \in Range(df_highest_odds.rows) :
       /\ x.bookmaker_key \in Excluded
       /\ GroupKey(x) = GroupKey(r)
       /\ FLess(r.outcome_price, x.outcome_price)

\* C8: the report is printed only after a fetch that succeeded and a
\* detection that found rows; after a failed fetch main has called nothing
\* else, printed nothing and returned; after an empty detection main has
\* called neither calculate_stakes nor the report and returned.
C8_ReportOnlyAfterFetchAndDetection ==
  /\ (stdout # <<>> \/ "display_arbitrage_opportunities" \in Range(calls)) =>
       response.status = "ok" /\ df_arbitrage.rows # <<>>
  /\ (response.status # "ok" /\ pc # "fetch") =>
       /\ pc = "done"
       /\ calls = <<"fetch_odds_data">>
       /\ stdout = <<>>
       /\ raised = "none"
  /\ (df_arbitrage.rows = <<>> /\ pc \notin {"fetch", "build", "filter", "highest",
                                            "detect", "check", "crashed"}) =>
       /\ pc = "done"
       /\ "calculate_stakes" \notin Range(calls)
       /\ "display_arbitrage_opportunities" \notin Range(calls)
       /\ stdout = <<>>
       /\ raised = "none"

\* a run that detected nothing has returned
C8_Witness ==
  /\ pc = "done"
  /\ "find_arbitrage_opportunities" \in Range(calls)
  /\ df_highest_odds.rows # <<>>
  /\ df_arbitrage.rows = <<>>

\* the index paths <<game, bookmaker, market, outcome>> of the outcome quotes
QuotePaths(data) ==
  UNION {UNION {UNION {
    {<<g, b, m, o>> :
       o \in 1..(IF data[g].bookmakers.items[b].markets.items[m].outcomes.present
                 THEN Len(data[g].bookmakers.items[b].markets.items[m].outcomes.items)
                 ELSE 0)} :
    m \in 1..(IF data[g].bookmakers.items[b].markets.present
              THEN Len(data[g].bookmakers.items[b].markets.items) ELSE 0)} :
    b \in 1..(IF data[g].bookmakers.present
              THEN Len(data[g].bookmakers.items) ELSE 0)} :
    g \in 1..Len(data)}

QuoteAt(data, p) ==
  LET bookmaker == data[p[1]].bookmakers.items[p[2]]
      market_   == bookmaker.markets.items[p[3]]
  IN  [game_id       |-> data[p[1]].id,
       bookmaker_key |-> bookmaker.key,
       market_key    |-> market_.key,
       outcome_name  |-> market_.outcomes.items[p[4]].name,
       outcome_price |-> market_.outcomes.items[p[4]].price]

Unlabelled(r) ==
  [game_id       |-> r.game_id,
   bookmaker_key |-> r.bookmaker_key,
   market_key    |-> r.market_key,
   outcome_name  |-> r.outcome_name,
   outcome_price |-> r.outcome_price]

\* C9: build_dataframe yields as many rows as there are outcome quotes in
\* the reply, and for every chain of game id, bookmaker key, market key,
\* outcome name and price as many rows that carry it as there are quotes with
\* that chain; absent and empty lists add nothing, and nothing is raised.
C9_OneRowPerOutcomeQuote ==
  pc = "filter" =>
    LET paths == QuotePaths(odds_data)
    IN  /\ raised = "none"
        /\ Len(df.rows) = Cardinality(paths)
        /\ \A p \in paths :
             Cardinality({i \in DOMAIN df.rows :
                            Unlabelled(df.rows[i]) = QuoteAt(odds_data, p)})
             = Cardinality({q \in paths :
                              QuoteAt(odds_data, q) = QuoteAt(odds_data, p)})

\* a reply with a game that has no bookmakers key, beside a game with rows
C9_Witness ==
  /\ pc = "filter"
  /\ df.rows # <<>>
  /\ \E g \in DOMAIN odds_data : ~odds_data[g].bookmakers.present

SingleOutcomeGames ==
  {g \in GamesOf(df_highest_odds) :
     /\ Len(RowsOf(df_highest_odds, g)) = 1
     /\ FLess(FOne, RowsOf(df_highest_odds, g)[1].outcome_price)}

\* the outcome names that the reply quotes for a game, exchanges included
QuotedNames(game_id) ==
  {x.outcome_name : x \in {y \in Range(build_dataframe(odds_data).rows) :
                             y.game_id = game_id}}

\* C10 as stated: a game with one surviving outcome priced above 1 is kept
\* and, once staked, that outcome's stake is total_stake.
C10_SingleOutcomeGetsTotalStake ==
  /\ pc \in {"check", "stakes", "display", "done"} =>
       \A g \in SingleOutcomeGames : Len(RowsOf(df_arbitrage, g)) = 1
  /\ Staked =>
       \A g \in SingleOutcomeGames :
         \A r \in Range(RowsOf(df_arbitrage, g)) : r.stake = FromInt(total_stake)

\* C10 as amended: the sum of a game is taken over the rows that survived
\* the exchange filter and the best-price selection, whatever outcomes the
\* reply quotes for the game; a game with one surviving outcome priced above
\* 1 is always kept and that outcome's stake is total_stake to within a
\* relative tolerance of 1e-6.
C10_SingleOutcomeKeptAndStaked ==
  /\ pc \in {"check", "stakes", "display", "done"} =>
       /\ \A g \in SingleOutcomeGames : Len(RowsOf(df_arbitrage, g)) = 1
       /\ \A g \in GamesOf(df_arbitrage) :
            Len(RowsOf(df_arbitrage, g)) = Len(RowsOf(df_highest_odds, g))
  /\ Staked =>
       \A g \in SingleOutcomeGames :
         \A r \in Range(RowsOf(df_arbitrage, g)) :
           Within(r.stake, FromInt(total_stake), Tolerance)

\* a game is reported on its one surviving outcome, while the reply quotes
\* two outcomes for it at prices whose reciprocals add up to 1
C10_Witness ==
  /\ pc = "done"
  /\ stdout # <<>>
  /\ \E g \in SingleOutcomeGames :
       /\ Cardinality(QuotedNames(g)) = 2
       /\ \A x \in Range(build_dataframe(odds_data).rows) :
            x.outcome_price = ParsePrice(200)

====
